---- MODULE Spec2Model ----
(***************************************************************************)
(* A model of sshctl: a client of the OpenSSH ControlMaster multiplexing   *)
(* protocol.  One Session object, the goroutines it launches (the          *)
(* exit-status reader and the stream copy tasks), the goroutine that       *)
(* calls Close, and the master process at the other end of the control     *)
(* socket and of the passed descriptors.                                   *)
(*                                                                         *)
(* Values read from the wire are kept as 4-byte big-endian words (tuples   *)
(* of bytes): the protocol's type codes exceed 2^31.  A Go int obtained    *)
(* from packetPopInt is therefore a word, or MinusOne for -1.              *)
(***************************************************************************)
EXTENDS Integers, Sequences, FiniteSets, TLC

\* ------------------------------------------------------------------ bounds
\* calls of Start/Shell/Run/Output/CombinedOutput on the Session
MaxStart == 2
\* calls of Close
MaxClose == 2
\* direct calls of Wait
MaxWait == 1
\* bytes the caller's Stdin holds
InLen == 2
\* bytes the remote command writes to its stdout
OutLen == 2
\* bytes the remote command writes to each output stream where copy errors are told apart
RunLen == 1
\* capacity of an OS pipe, in bytes
PipeCap == 1

Streams == {"stdin", "stdout", "stderr"}
OutStreams == {"stdout", "stderr"}

\* the i-th byte of the caller's input
InByte(i) == i
\* what stands for end-of-input in the record of what the remote command read
EndOfInput == InByte(0)
\* the i-th byte the remote command writes to stream s
OutByte(s, i) == IF s = "stderr" THEN 10 + i ELSE i

\* ------------------------------------------------------------ wire format
\* binary.BigEndian.PutUint32, for values below 2^31
U32(n) ==
  <<(n \div 16777216) % 256, (n \div 65536) % 256, (n \div 256) % 256, n % 256>>

muxVersion == 4
muxMsgHello == 1
muxNewSession == 268435458
muxAliveCheck == 268435460
muxIsAlive == <<128, 0, 0, 5>>
muxSessionOpened == <<128, 0, 0, 6>>
muxTtyAllocFail == <<128, 0, 0, 8>>
muxExitMessage == <<128, 0, 0, 4>>

\* the int -1
MinusOne == <<-1>>

\* ssh.Marshal of a string field: 4-byte length, then the bytes
MarshalString(str) == U32(Len(str)) \o str

\* ssh.Marshal(&muxMsg{Request, Param})
MarshalMuxMsg(request, param) == U32(request) \o U32(param)

\* the escape character 0xffffffff of a NewSession request
EscapeNone == <<255, 255, 255, 255>>

\* ssh.Marshal(&muxNewSessionMsg{...}) as sshMuxNewSession fills it
MarshalNewSession(reqid, termStr, cmd) ==
  U32(muxNewSession) \o U32(reqid) \o MarshalString(<<>>)
    \o U32(IF termStr # <<>> THEN 1 ELSE 0) \o U32(0) \o U32(0) \o U32(0)
    \o EscapeNone \o MarshalString(termStr) \o MarshalString(cmd)

\* packetPopInt: the first four bytes as a word, the buffer advanced
packetPopInt(buf) ==
  IF Len(buf) < 4
    THEN [err |-> TRUE, res |-> MinusOne, buf |-> buf]
    ELSE [err |-> FALSE, res |-> SubSeq(buf, 1, 4), buf |-> SubSeq(buf, 5, Len(buf))]

RECURSIVE popInts(_, _, _)
\* the loop of recvInts, on the payload readPacket returned
popInts(packet, count, msgs) ==
  IF count <= 0
    THEN [err |-> FALSE, msgs |-> msgs]
    ELSE LET p == packetPopInt(packet)
         IN  IF p.err
               THEN [err |-> TRUE, msgs |-> <<>>]
               ELSE popInts(p.buf, count - 1, Append(msgs, p.res))

\* recvInts on the outcome of readPacket: a transport error, or a payload
recvInts(rd, count) ==
  IF rd.err
    THEN [err |-> TRUE, msgs |-> <<>>]
    ELSE popInts(rd.pkt, count, <<>>)

\* outcomes of readPacket: the connection errors or closes, or a full frame
ReadError == [err |-> TRUE, pkt |-> <<>>]
ReadPacket(p) == [err |-> FALSE, pkt |-> p]

\* ------------------------------------------------------------ error values
ErrNil == [kind |-> "nil", status |-> <<>>, msg |-> ""]
Err(kind) == [kind |-> kind, status |-> <<>>, msg |-> ""]
ExitMissingError == Err("ExitMissingError")
ExitError(wm) == [kind |-> "ExitError", status |-> wm.status, msg |-> wm.msg]
CopyError(s) == [kind |-> "copy", status |-> <<>>, msg |-> s]

\* --------------------------------------------------------------- channels
NilChan == [nil |-> TRUE, cap |-> 0, buf |-> <<>>]
MakeChan(n) == [nil |-> FALSE, cap |-> n, buf |-> <<>>]
CanSend(ch) == ~ch.nil /\ Len(ch.buf) < ch.cap
CanRecv(ch) == ~ch.nil /\ Len(ch.buf) > 0
Send(ch, v) == [ch EXCEPT !.buf = Append(@, v)]
Recv(ch) == [ch EXCEPT !.buf = Tail(@)]

\* ------------------------------------------------------------------ state
VARIABLES
  \* Session fields
  Std,              \* Stdin, Stdout, Stderr: what the caller (or the library) assigned
  lmux,             \* lmuxStdin/out/err: "nil", "acc" (pipe of a pipe accessor), "lib" (pipe of the hand-off)
  rmux,             \* rmuxStdin/out/err: "nil", "pipe" (remote end of the pipe), "file" (the caller's *os.File)
  pipeflag,         \* stdinpipe, stdoutpipe, stderrpipe
  copyFuncs,        \* the streams that have a copy function, in order
  errors,           \* chan error, one send per copyFunc
  ctrlconn,         \* "nil", "open", "closed"
  ctrlReqid,
  ctrlSessid,
  term,
  started,
  stdinPipeWriter,  \* "nil", "open", "closed"
  exitStatus,       \* chan error
  aborted,          \* chan bool
  \* descriptors
  lOpen,            \* the local end of the stream's pipe is open
  rOpen,            \* this process's handle of the remote end of the stream's pipe is open
  fileOpen,         \* the caller's *os.File of the stream is open
  pipeBuf,          \* the bytes in the stream's pipe
  lostConn,         \* a control connection was replaced while open
  \* the goroutine calling Start/Shell/Run/Output/CombinedOutput/Wait
  mainPc,           \* "idle", "hello", "alive", "opened", "select", "drain"
  api,              \* the outermost call in progress
  cmd,              \* its command
  waitErr,          \* Wait's locals
  copyError,
  drained,
  ret,              \* what the last call of this goroutine returned
  outRet,           \* the bytes Output/CombinedOutput returned
  \* the goroutine calling Close
  closePc,          \* "idle", "send", "nil" (sending on the nil channel)
  \* the exit-status reader (Session.wait)
  rdPc,             \* "none", "loop", "done"
  wm,               \* Waitmsg: status, msg
  exit_seen,
  \* the copy tasks
  taskPc,           \* per stream: "none", "run", "done"
  held,             \* the chunk the stdin task read and has not yet written
  \* the master process and the remote command
  mconn,            \* the master's end of the current control connection
  mfd,              \* the master's copy of each passed descriptor: "none", "open", "closed"
  rpos,             \* bytes the remote command wrote, per output stream
  rin,              \* bytes the remote command read from its stdin
  inPos,            \* bytes taken from the caller's input
  sink,             \* bytes that reached the caller's Stdout and Stderr
  limit,            \* bytes the caller's input holds, bytes the command writes per stream
  \* history
  sent,             \* packets written on the current control connection
  reply,            \* the last reply read on the current connection, and at which step
  put,              \* the streams whose descriptors were passed on the current connection, in order
  startedBy,        \* which call completed the handshake: "none", "Start", "Shell"
  copyDone,         \* the copy tasks' results, in completion order
  readerOut,        \* what Session.wait returned
  atClose,          \* what held when Close was first called
  singleWriter,     \* the writer CombinedOutput assigns: its mutex, and each copy task's Write
  rdSeen,           \* the kinds of irregular packet the exit-status reader has read
  counts            \* calls and events counted

vars ==
  <<Std, lmux, rmux, pipeflag, copyFuncs, errors, ctrlconn, ctrlReqid, ctrlSessid,
    term, started, stdinPipeWriter, exitStatus, aborted, lOpen, rOpen, fileOpen,
    pipeBuf, lostConn, mainPc, api, cmd, waitErr, copyError, drained, ret,
    outRet, closePc, rdPc, wm, exit_seen, taskPc, held, mconn, mfd, rpos, rin, inPos,
    sink, limit, sent, reply, put, startedBy, copyDone, readerOut, atClose, singleWriter,
    rdSeen, counts>>

sessionVars ==
  <<Std, lmux, rmux, pipeflag, copyFuncs, errors, ctrlconn, ctrlReqid, ctrlSessid,
    term, started, stdinPipeWriter, exitStatus, aborted>>
fdVars == <<lOpen, rOpen, fileOpen, pipeBuf, lostConn>>
waitVars == <<waitErr, copyError, drained>>
readerVars == <<rdPc, wm, exit_seen, readerOut>>
taskVars == <<taskPc, held, copyDone>>
remoteVars == <<mconn, mfd, rpos, rin>>
dataVars == <<inPos, sink, limit>>
wireVars == <<sent, reply, put>>

NoReply == [step |-> "none", rd |-> ReadError]
NoRet == [api |-> "none", err |-> ErrNil, wait |-> FALSE]
NotClosed ==
  [called |-> FALSE, started |-> FALSE, delivered |-> FALSE, sink |-> <<>>,
   remote |-> <<>>]

\* var b singleWriter: the mutex unlocked; no copy task is inside Write
ZeroSingleWriter ==
  [mu |-> "free",
   pc |-> [s \in OutStreams |-> "idle"],
   p |-> [s \in OutStreams |-> <<>>],
   m |-> [s \in OutStreams |-> 0]]

\* NewSession(path): &Session{sshctlpath: path}, every other field zero
InitSession ==
  /\ Std = [s \in Streams |-> "nil"]
  /\ lmux = [s \in Streams |-> "nil"]
  /\ rmux = [s \in Streams |-> "nil"]
  /\ pipeflag = [s \in Streams |-> FALSE]
  /\ copyFuncs = <<>>
  /\ errors = NilChan
  /\ ctrlconn = "nil"
  /\ ctrlReqid = 0
  /\ ctrlSessid = U32(0)
  /\ term = <<>>
  /\ started = FALSE
  /\ stdinPipeWriter = "nil"
  /\ exitStatus = NilChan
  /\ aborted = NilChan
  /\ lOpen = [s \in Streams |-> FALSE]
  /\ rOpen = [s \in Streams |-> FALSE]
  /\ fileOpen = [s \in Streams |-> TRUE]
  /\ pipeBuf = [s \in Streams |-> <<>>]
  /\ lostConn = FALSE
  /\ mainPc = "idle"
  /\ api = "none"
  /\ cmd = <<>>
  /\ waitErr = ErrNil
  /\ copyError = ErrNil
  /\ drained = 0
  /\ ret = NoRet
  /\ outRet = <<>>
  /\ closePc = "idle"
  /\ rdPc = "none"
  /\ wm = [status |-> MinusOne, msg |-> ""]
  /\ exit_seen = FALSE
  /\ taskPc = [s \in Streams |-> "none"]
  /\ held = <<>>
  /\ mconn = "none"
  /\ mfd = [s \in Streams |-> "none"]
  /\ rpos = [s \in OutStreams |-> 0]
  /\ rin = <<>>
  /\ inPos = 0
  /\ sink = [s \in OutStreams |-> <<>>]
  /\ sent = <<>>
  /\ put = <<>>
  /\ reply = NoReply
  /\ startedBy = "none"
  /\ copyDone = <<>>
  /\ readerOut = Err("none")
  /\ atClose = NotClosed
  /\ singleWriter = ZeroSingleWriter
  /\ rdSeen = {}
  /\ counts = [start |-> 0, close |-> 0, closeRet |-> 0, wait |-> 0, dial |-> 0,
               handshake |-> 0, reader |-> 0, exitSend |-> 0]

\* --------------------------------------------------- what the master may send
\* the session id the master assigns, and another one
Sid == U32(7)
OtherSid == U32(8)
\* the third field of an IsAlive reply: the master's pid
Pid == U32(99)

\* payloads the master may send as its greeting
HelloReplies ==
  { U32(muxMsgHello) \o U32(muxVersion),
    U32(muxMsgHello) \o U32(muxVersion) \o <<0>>,
    U32(muxMsgHello) \o U32(muxVersion + 1),
    U32(muxMsgHello + 1) \o U32(muxVersion),
    U32(muxMsgHello) \o <<0, 0, 0>>,
    <<>> }

\* payloads the master may send after AliveCheck
AliveReplies ==
  { muxIsAlive \o U32(r) \o Pid : r \in 0..1 }
    \cup { muxSessionOpened \o U32(0) \o Pid,
           muxIsAlive \o U32(0),
           muxIsAlive \o U32(0) \o <<0, 0>> }

\* payloads the master may send after the descriptor hand-off
OpenedReplies ==
  { muxSessionOpened \o U32(r) \o Sid : r \in 0..2 }
    \cup { muxIsAlive \o U32(1) \o Sid,
           muxSessionOpened \o U32(1),
           muxSessionOpened \o U32(1) \o <<0, 0, 0>>,
           <<>> }

\* payloads the master may send to the exit-status reader
ReaderPackets ==
  { muxExitMessage \o Sid \o U32(0),
    muxExitMessage \o Sid \o U32(1),
    muxExitMessage \o OtherSid \o U32(0),
    muxExitMessage \o Sid,
    muxExitMessage,
    muxTtyAllocFail \o Sid,
    muxTtyAllocFail \o OtherSid,
    muxTtyAllocFail,
    muxIsAlive \o Sid \o U32(0),
    <<0, 0>> }

ReadOutcomes(payloads) == {ReadError} \cup {ReadPacket(p) : p \in payloads}

\* terminal types RequestPty is called with, and commands
Terms == {<<120>>}
Cmds == {<<>>, <<99>>}
Apis == {"Start", "Shell", "Run", "Output", "CombinedOutput"}

\* ------------------------------------------------- the calls before Start
\* the caller assigns Stdin, Stdout or Stderr
SetStd(s, k) ==
  /\ mainPc = "idle"
  /\ ~started
  /\ Std[s] = "nil"
  /\ k \in (IF s = "stdin" THEN {"reader", "file"} ELSE {"writer", "file"})
  /\ Std' = [Std EXCEPT ![s] = k]
  /\ UNCHANGED <<lmux, rmux, pipeflag, copyFuncs, errors, ctrlconn, ctrlReqid,
                 ctrlSessid, term, started, stdinPipeWriter, exitStatus, aborted>>
  /\ UNCHANGED <<fdVars, mainPc, api, cmd, waitVars, ret, outRet, closePc, readerVars,
                 taskVars, remoteVars, dataVars, wireVars, startedBy, atClose,
                 singleWriter, rdSeen, counts>>

RequestPty(t) ==
  /\ mainPc = "idle"
  /\ ~started
  /\ term # t
  /\ term' = t
  /\ ret' = [api |-> "RequestPty", err |-> ErrNil, wait |-> FALSE]
  /\ UNCHANGED <<Std, lmux, rmux, pipeflag, copyFuncs, errors, ctrlconn, ctrlReqid,
                 ctrlSessid, started, stdinPipeWriter, exitStatus, aborted>>
  /\ UNCHANGED <<fdVars, mainPc, api, cmd, waitVars, outRet, closePc, readerVars,
                 taskVars, remoteVars, dataVars, wireVars, startedBy, atClose,
                 singleWriter, rdSeen, counts>>

PipeName(s) ==
  CASE s = "stdin" -> "StdinPipe" [] s = "stdout" -> "StdoutPipe" [] OTHER -> "StderrPipe"

\* the error StdinPipe, StdoutPipe or StderrPipe returns
PipeCheck(s) ==
  IF Std[s] # "nil" THEN Err("already set")
  ELSE IF started THEN Err("after process started")
  ELSE ErrNil

\* StdinPipe, StdoutPipe, StderrPipe
Pipe(s) ==
  /\ mainPc = "idle"
  /\ ret' = [api |-> PipeName(s), err |-> PipeCheck(s), wait |-> FALSE]
  /\ IF PipeCheck(s) # ErrNil
       THEN UNCHANGED <<pipeflag, rmux, lmux, lOpen, rOpen, pipeBuf>>
       ELSE /\ pipeflag' = [pipeflag EXCEPT ![s] = TRUE]
            /\ rmux' = [rmux EXCEPT ![s] = "pipe"]
            /\ lmux' = [lmux EXCEPT ![s] = "acc"]
            /\ lOpen' = [lOpen EXCEPT ![s] = TRUE]
            /\ rOpen' = [rOpen EXCEPT ![s] = TRUE]
            /\ pipeBuf' = [pipeBuf EXCEPT ![s] = <<>>]
  /\ UNCHANGED <<Std, copyFuncs, errors, ctrlconn, ctrlReqid, ctrlSessid, term,
                 started, stdinPipeWriter, exitStatus, aborted, fileOpen, lostConn>>
  /\ UNCHANGED <<mainPc, api, cmd, waitVars, outRet, closePc, readerVars,
                 taskVars, remoteVars, dataVars, wireVars, startedBy, atClose,
                 singleWriter, rdSeen, counts>>

\* a caller that asks for the pipe of a stream once
PipeOnce(s) == lmux[s] = "nil" /\ Pipe(s)

\* ------------------------------------------------------------ the handshake
\* the error of a failed recvInts: a transport error, or a short buffer
RecvErr(rd) == IF rd.err THEN Err("read") ELSE Err("buffer too short")

\* sshMuxHello: read the greeting, check it, reply with the same pair
sshMuxHello(rd, wok, snt) ==
  LET r == recvInts(rd, 2)
  IN  IF r.err THEN [err |-> RecvErr(rd), sent |-> snt]
      ELSE IF r.msgs[1] # U32(muxMsgHello) \/ r.msgs[2] # U32(muxVersion)
        THEN [err |-> Err("Incompatible Hello"), sent |-> snt]
      ELSE IF ~wok THEN [err |-> Err("write"), sent |-> snt]
      ELSE [err |-> ErrNil, sent |-> Append(snt, MarshalMuxMsg(muxMsgHello, muxVersion))]

\* sshMuxAliveCheck up to its read: the request carries the current request id
AliveCheckSend(wok, reqid, snt) ==
  IF ~wok THEN [err |-> Err("write"), sent |-> snt]
  ELSE [err |-> ErrNil, sent |-> Append(snt, MarshalMuxMsg(muxAliveCheck, reqid))]

\* sshMuxAliveCheck without the comparison of the echoed request id
AliveCheckRecvAnyId(rd, reqid) ==
  LET r == recvInts(rd, 3)
  IN  IF r.err THEN [err |-> RecvErr(rd), reqid |-> reqid]
      ELSE IF r.msgs[1] # muxIsAlive THEN [err |-> Err("Expected ALIVE"), reqid |-> reqid]
      ELSE [err |-> ErrNil, reqid |-> reqid + 1]

\* sshMuxAliveCheck from its read on: the reply is IsAlive and echoes the id
AliveCheckRecv(rd, reqid) ==
  LET r == recvInts(rd, 3)
  IN  IF r.err THEN [err |-> RecvErr(rd), reqid |-> reqid]
      ELSE IF r.msgs[1] # muxIsAlive THEN [err |-> Err("Expected ALIVE"), reqid |-> reqid]
      ELSE IF r.msgs[2] # U32(reqid)
        THEN [err |-> Err("out of sequence reply"), reqid |-> reqid]
      ELSE [err |-> ErrNil, reqid |-> reqid + 1]

\* sshMuxNewSession
sshMuxNewSession(wok, reqid, termStr, command, snt) ==
  IF ~wok THEN [err |-> Err("write"), sent |-> snt]
  ELSE [err |-> ErrNil, sent |-> Append(snt, MarshalNewSession(reqid, termStr, command))]

\* sshMuxPassFileDescriptors without the comparison of the reply's type
SessionOpenedRecvAnyType(rd, reqid, sessid) ==
  LET r == recvInts(rd, 3)
  IN  IF r.err THEN [err |-> RecvErr(rd), reqid |-> reqid, sessid |-> sessid]
      ELSE IF r.msgs[2] # U32(reqid)
        THEN [err |-> Err("out of sequence reply"), reqid |-> reqid, sessid |-> sessid]
      ELSE [err |-> ErrNil, reqid |-> reqid + 1, sessid |-> r.msgs[3]]

\* sshMuxPassFileDescriptors from its read on
SessionOpenedRecv(rd, reqid, sessid) ==
  LET r == recvInts(rd, 3)
  IN  IF r.err THEN [err |-> RecvErr(rd), reqid |-> reqid, sessid |-> sessid]
      ELSE IF r.msgs[1] # muxSessionOpened
        THEN [err |-> Err("Expected muxSessionOpened"), reqid |-> reqid, sessid |-> sessid]
      ELSE IF r.msgs[2] # U32(reqid)
        THEN [err |-> Err("out of sequence reply"), reqid |-> reqid, sessid |-> sessid]
      ELSE [err |-> ErrNil, reqid |-> reqid + 1, sessid |-> r.msgs[3]]

\* the order in which the three streams are set up and passed
Ord(s) == CASE s = "stdin" -> 1 [] s = "stdout" -> 2 [] OTHER -> 3

\* the hand-off creates a pipe for the stream
NeedsPipe(s) == Std[s] # "file" /\ lmux[s] = "nil"

\* what a failed call returns to the caller of Start/Shell/Run/Output/CombinedOutput
Return(a, e) ==
  /\ mainPc' = "idle"
  /\ ret' = [api |-> a, err |-> e, wait |-> FALSE]
  /\ outRet' = IF a \in {"Output", "CombinedOutput"} THEN sink["stdout"] ELSE outRet

\* a check that looks at Stdout only
PreCheckStdout(a) ==
  IF a \in {"Output", "CombinedOutput"} /\ Std["stdout"] # "nil"
    THEN Err("Stdout already set")
  ELSE ErrNil

\* the error Output and CombinedOutput return before anything else is done
PreCheck(a) ==
  IF a \in {"Output", "CombinedOutput"} /\ Std["stdout"] # "nil"
    THEN Err("Stdout already set")
  ELSE IF a = "CombinedOutput" /\ Std["stderr"] # "nil"
    THEN Err("Stderr already set")
  ELSE ErrNil

\* the sinks Output and CombinedOutput assign
Assigned(a) ==
  CASE a = "Output" -> [Std EXCEPT !["stdout"] = "buffer"]
    [] a = "CombinedOutput" -> [Std EXCEPT !["stdout"] = "single", !["stderr"] = "single"]
    [] OTHER -> Std

\* a Start that forgets to look at s.started
StartedIgnored == FALSE

\* the guard of Start and Shell: the session was started before
AlreadyStarted == started

\* Start, Shell, Run, Output, CombinedOutput up to the first read of the handshake:
\* the checks, openCtrlConn, and the reset of the request id
StartBegin(a, c, dial) ==
  /\ mainPc = "idle"
  /\ counts.start < MaxStart
  /\ a = "Shell" => c = <<>>
  /\ IF PreCheck(a) # ErrNil
       THEN /\ mainPc' = "idle"
            /\ ret' = [api |-> a, err |-> PreCheck(a), wait |-> FALSE]
            /\ outRet' = <<>>
            /\ counts' = [counts EXCEPT !.start = @ + 1]
            /\ UNCHANGED <<Std, ctrlconn, ctrlReqid, lostConn, api, cmd, mconn, mfd,
                           sent, reply, put>>
     ELSE IF AlreadyStarted
       THEN /\ Return(a, Err("session already started"))
            /\ Std' = Assigned(a)
            /\ counts' = [counts EXCEPT !.start = @ + 1]
            /\ UNCHANGED <<ctrlconn, ctrlReqid, lostConn, api, cmd, mconn, mfd, sent,
                           reply, put>>
     ELSE IF ~dial
       THEN /\ Return(a, Err("dial"))
            /\ Std' = Assigned(a)
            /\ ctrlconn' = "nil"
            /\ lostConn' = (lostConn \/ ctrlconn = "open")
            /\ counts' = [counts EXCEPT !.start = @ + 1, !.dial = @ + 1]
            /\ UNCHANGED <<ctrlReqid, api, cmd, mconn, mfd, sent, reply, put>>
     ELSE /\ Std' = Assigned(a)
          /\ ctrlconn' = "open"
          /\ lostConn' = (lostConn \/ ctrlconn = "open")
          /\ ctrlReqid' = 0
          /\ mconn' = "open"
          /\ mfd' = [s \in Streams |-> "none"]
          /\ sent' = <<>>
          /\ put' = <<>>
          /\ reply' = NoReply
          /\ api' = a
          /\ cmd' = c
          /\ mainPc' = "hello"
          /\ counts' = [counts EXCEPT !.start = @ + 1, !.dial = @ + 1]
          /\ ret' = NoRet
          /\ UNCHANGED outRet
  /\ UNCHANGED <<lmux, rmux, pipeflag, copyFuncs, errors, ctrlSessid, term, started,
                 stdinPipeWriter, exitStatus, aborted>>
  /\ UNCHANGED <<lOpen, rOpen, fileOpen, pipeBuf, waitVars, closePc,
                 readerVars, taskVars, rpos, rin, dataVars, startedBy, atClose,
                 singleWriter, rdSeen>>

\* the greeting arrives (or the read fails): sshMuxHello, then the AliveCheck request
StartHello(rd, wok1, wok2) ==
  /\ mainPc = "hello"
  /\ rd \in ReadOutcomes(HelloReplies)
  /\ reply' = [step |-> "hello", rd |-> rd]
  /\ LET h == sshMuxHello(rd, wok1, sent)
         a == AliveCheckSend(wok2, ctrlReqid, h.sent)
     IN  IF h.err # ErrNil
           THEN Return(api, h.err) /\ sent' = h.sent
         ELSE IF a.err # ErrNil
           THEN Return(api, a.err) /\ sent' = a.sent
         ELSE mainPc' = "alive" /\ sent' = a.sent /\ UNCHANGED <<ret, outRet>>
  /\ UNCHANGED put
  /\ UNCHANGED <<sessionVars, fdVars, api, cmd, waitVars, closePc, readerVars, taskVars,
                 remoteVars, dataVars, startedBy, atClose,
                 singleWriter, rdSeen, counts>>

\* a hand-off that passes the stdout descriptor first
PutOrderSwapped == <<"stdout", "stdin", "stderr">>

\* the three fd.Put calls: the descriptors are passed in this order, and the master
\* takes the first as the command's stdin, the second as stdout, the third as stderr
PutOrder == <<"stdin", "stdout", "stderr">>

\* the streams the hand-off has set up when the pipe of stream pfail cannot be created
SetUp(pfail) == {s \in Streams : pfail = "none" \/ Ord(s) < Ord(pfail)}

\* the IsAlive reply arrives: the rest of sshMuxAliveCheck, sshMuxNewSession, and
\* sshMuxPassFileDescriptors up to its read
StartAlive(rd, wok, pfail) ==
  /\ mainPc = "alive"
  /\ rd \in ReadOutcomes(AliveReplies)
  /\ pfail \in {"none"} \cup {s \in Streams : NeedsPipe(s)}
  /\ reply' = [step |-> "alive", rd |-> rd]
  /\ LET a == AliveCheckRecv(rd, ctrlReqid)
         n == sshMuxNewSession(wok, a.reqid, term, cmd, sent)
         made == {s \in SetUp(pfail) : NeedsPipe(s)}
         file == {s \in SetUp(pfail) : Std[s] = "file"}
         rmux1 == [s \in Streams |->
                     IF s \in file THEN "file" ELSE IF s \in made THEN "pipe" ELSE rmux[s]]
     IN  /\ ctrlReqid' = a.reqid
         /\ IF a.err # ErrNil
              THEN /\ Return(api, a.err)
                   /\ UNCHANGED <<sent, put, rmux, lmux, pipeflag, lOpen, rOpen, mfd>>
            ELSE IF n.err # ErrNil
              THEN /\ Return(api, n.err)
                   /\ UNCHANGED <<sent, put, rmux, lmux, pipeflag, lOpen, rOpen, mfd>>
            ELSE /\ sent' = n.sent
                 /\ rmux' = rmux1
                 /\ lmux' = [s \in Streams |-> IF s \in made THEN "lib" ELSE lmux[s]]
                 /\ pipeflag' = [s \in Streams |-> pipeflag[s] \/ s \in file]
                 /\ lOpen' = [s \in Streams |-> lOpen[s] \/ s \in made]
                 /\ rOpen' = [s \in Streams |-> rOpen[s] \/ s \in made]
                 /\ IF pfail # "none"
                      THEN Return(api, Err("pipe")) /\ UNCHANGED <<mfd, put>>
                      ELSE /\ mainPc' = "opened"
                           /\ put' = PutOrder
                           /\ mfd' = [s \in Streams |->
                                LET d == PutOrder[Ord(s)]
                                IN  IF (rmux1[d] = "file" /\ fileOpen[d])
                                         \/ (rmux1[d] = "pipe" /\ (rOpen[d] \/ d \in made))
                                      THEN "open" ELSE "none"]
                           /\ UNCHANGED <<ret, outRet>>
  /\ UNCHANGED <<Std, copyFuncs, errors, ctrlconn, ctrlSessid, term, started,
                 stdinPipeWriter, exitStatus, aborted, fileOpen, pipeBuf, lostConn>>
  /\ UNCHANGED <<api, cmd, waitVars, closePc, readerVars, taskVars, mconn, rpos, rin,
                 dataVars, startedBy, atClose,
                 singleWriter, rdSeen, counts>>

\* makeRawTerm: only a terminal can be put into raw mode, and no pipe is one
makeRawTerm(raw) ==
  IF rmux["stdin"] = "file" /\ raw THEN ErrNil ELSE Err("MakeRaw")

\* Session.stdin, Session.stdout, Session.stderr: the stream gets a copy function
HasCopyFunc(s) == ~pipeflag[s]

\* the copy functions start() collects, in the order stdin, stdout, stderr
NewCopyFuncs ==
  (IF HasCopyFunc("stdin") THEN <<"stdin">> ELSE <<>>)
    \o (IF HasCopyFunc("stdout") THEN <<"stdout">> ELSE <<>>)
    \o (IF HasCopyFunc("stderr") THEN <<"stderr">> ELSE <<>>)

\* the capacity start() gives the channel of copy results
ErrorsCap(funcs) == Len(funcs)

\* the channel Start makes for the abort signal; Shell makes none
AbortedChan(a) == IF a = "Shell" THEN aborted ELSE MakeChan(1)

\* the local handles requestMuxSession closes once the session is opened
ClosesRemoteEnd(s) == lmux[s] # "nil"

\* the SessionOpened reply arrives: the rest of sshMuxPassFileDescriptors and of
\* requestMuxSession, then the channels, the reader goroutine and start()
StartOpened(rd, raw) ==
  /\ mainPc = "opened"
  /\ rd \in ReadOutcomes(OpenedReplies)
  /\ reply' = [step |-> "opened", rd |-> rd]
  /\ LET o == SessionOpenedRecv(rd, ctrlReqid, ctrlSessid)
         rawErr == IF term # <<>> THEN makeRawTerm(raw) ELSE ErrNil
         funcs == copyFuncs \o NewCopyFuncs
     IN  /\ ctrlReqid' = o.reqid
         /\ ctrlSessid' = o.sessid
         /\ IF o.err # ErrNil \/ rawErr # ErrNil
              THEN /\ Return(api, IF o.err # ErrNil THEN o.err ELSE rawErr)
                   /\ UNCHANGED <<Std, copyFuncs, errors, started, stdinPipeWriter,
                                  exitStatus, aborted, rOpen, fileOpen, rdPc, taskPc,
                                  startedBy, counts>>
              ELSE /\ rOpen' = [s \in Streams |->
                          rOpen[s] /\ ~(ClosesRemoteEnd(s) /\ rmux[s] = "pipe")]
                   /\ fileOpen' = [s \in Streams |->
                          fileOpen[s] /\ ~(ClosesRemoteEnd(s) /\ rmux[s] = "file")]
                   /\ exitStatus' = MakeChan(1)
                   /\ aborted' = AbortedChan(api)
                   /\ rdPc' = "loop"
                   /\ started' = TRUE
                   /\ startedBy' = IF api = "Shell" THEN "Shell" ELSE "Start"
                   /\ stdinPipeWriter' =
                        IF HasCopyFunc("stdin") /\ Std["stdin"] # "nil"
                          THEN "open" ELSE stdinPipeWriter
                   /\ Std' = [s \in Streams |->
                        IF s \in OutStreams /\ HasCopyFunc(s) /\ Std[s] = "nil"
                          THEN "discard" ELSE Std[s]]
                   /\ copyFuncs' = funcs
                   /\ errors' = MakeChan(ErrorsCap(funcs))
                   /\ taskPc' = [s \in Streams |->
                        IF \E i \in 1..Len(funcs) : funcs[i] = s THEN "run" ELSE taskPc[s]]
                   /\ counts' = [counts EXCEPT !.handshake = @ + 1, !.reader = @ + 1]
                   /\ IF api \in {"Start", "Shell"}
                        THEN Return(api, ErrNil)
                        ELSE mainPc' = "select" /\ UNCHANGED <<ret, outRet>>
  /\ UNCHANGED <<lmux, rmux, pipeflag, ctrlconn, term, lOpen, pipeBuf, lostConn>>
  /\ UNCHANGED <<api, cmd, waitVars, closePc, wm, exit_seen, readerOut, held, copyDone,
                 remoteVars, dataVars, sent, put, atClose,
                 singleWriter, rdSeen>>

\* -------------------------------------------------------------------- Wait
\* a Wait that does not look at s.started
NotStartedIgnored == FALSE

\* the guard of Wait: if !s.started
NotStarted == ~started

\* a call of Wait, when fewer than n calls were made before
WaitUpTo(n) ==
  /\ mainPc = "idle"
  /\ counts.wait < n
  /\ counts' = [counts EXCEPT !.wait = @ + 1]
  /\ IF NotStarted
       THEN /\ ret' = [api |-> "Wait", err |-> Err("session not started"), wait |-> FALSE]
            /\ UNCHANGED <<mainPc, api>>
       ELSE /\ mainPc' = "select"
            /\ api' = "Wait"
            /\ UNCHANGED ret
  /\ UNCHANGED <<sessionVars, fdVars, cmd, waitVars, outRet, closePc, readerVars,
                 taskVars, remoteVars, dataVars, wireVars, startedBy, atClose,
                 singleWriter, rdSeen>>

WaitBegin == WaitUpTo(MaxWait)

\* what Wait returns: the exit-status or abort error if any, else the copy error
WaitResult(we, ce) == IF we # ErrNil THEN we ELSE ce

\* a Wait that keeps the last copy error instead of the first
FoldCopyErrorLast(ce, e) == IF e # ErrNil THEN e ELSE ce

\* the copy error Wait keeps: the first one that is not nil
FoldCopyError(ce, e) == IF e # ErrNil /\ ce = ErrNil THEN e ELSE ce

\* Wait (and with it Run, Output, CombinedOutput) returns
WaitReturn(we, ce) ==
  /\ mainPc' = "idle"
  /\ ret' = [api |-> api, err |-> WaitResult(we, ce), wait |-> TRUE]
  /\ outRet' = IF api \in {"Output", "CombinedOutput"} THEN sink["stdout"] ELSE outRet

\* the select of Wait has taken a case: close the stdin relay, start draining
AfterSelect(we) ==
  /\ waitErr' = we
  /\ stdinPipeWriter' = IF stdinPipeWriter # "nil" THEN "closed" ELSE "nil"
  /\ copyError' = ErrNil
  /\ drained' = 0
  /\ IF Len(copyFuncs) = 0
       THEN WaitReturn(we, ErrNil)
       ELSE mainPc' = "drain" /\ UNCHANGED <<ret, outRet>>
  /\ UNCHANGED <<Std, lmux, rmux, pipeflag, copyFuncs, errors, ctrlconn, ctrlReqid,
                 ctrlSessid, term, started>>
  /\ UNCHANGED <<fdVars, api, cmd, closePc, readerVars, taskVars, remoteVars, dataVars,
                 wireVars, startedBy, atClose,
                 singleWriter, rdSeen, counts>>

\* case waitErr = <-s.exitStatus
WaitSelectExit ==
  /\ mainPc = "select"
  /\ CanRecv(exitStatus)
  /\ exitStatus' = Recv(exitStatus)
  /\ UNCHANGED aborted
  /\ AfterSelect(Head(exitStatus.buf))

\* case <-s.aborted
WaitSelectAborted ==
  /\ mainPc = "select"
  /\ CanRecv(aborted)
  /\ aborted' = Recv(aborted)
  /\ UNCHANGED exitStatus
  /\ AfterSelect(Err("Session aborted"))

\* one receive of the loop over s.copyFuncs
WaitDrain ==
  /\ mainPc = "drain"
  /\ CanRecv(errors)
  /\ errors' = Recv(errors)
  /\ LET ce == FoldCopyError(copyError, Head(errors.buf))
     IN  /\ copyError' = ce
         /\ drained' = drained + 1
         /\ IF drained + 1 = Len(copyFuncs)
              THEN WaitReturn(waitErr, ce)
              ELSE UNCHANGED <<mainPc, ret, outRet>>
  /\ UNCHANGED <<Std, lmux, rmux, pipeflag, copyFuncs, ctrlconn, ctrlReqid, ctrlSessid,
                 term, started, stdinPipeWriter, exitStatus, aborted>>
  /\ UNCHANGED <<fdVars, api, cmd, waitErr, closePc, readerVars, taskVars, remoteVars,
                 dataVars, wireVars, startedBy, atClose,
                 singleWriter, rdSeen, counts>>

\* ------------------------------------------------------------------- Close
\* Close up to its send: the control connection and the local output ends are closed;
\* the channel operand of the send is evaluated, and a send on a nil channel blocks
\* for ever
CloseBegin ==
  /\ closePc = "idle"
  /\ mainPc \in {"idle", "select", "drain"}
  /\ counts.close < MaxClose
  /\ counts' = [counts EXCEPT !.close = @ + 1]
  /\ ctrlconn' = IF ctrlconn # "nil" THEN "closed" ELSE "nil"
  /\ lOpen' = [s \in Streams |-> lOpen[s] /\ ~(s \in OutStreams /\ lmux[s] # "nil")]
  /\ closePc' = IF aborted.nil THEN "nil" ELSE "send"
  /\ atClose' = IF atClose.called THEN atClose
                ELSE [called |-> TRUE, started |-> started,
                      delivered |-> rdPc = "done", sink |-> sink["stdout"],
                      remote |-> remoteVars]
  /\ UNCHANGED <<Std, lmux, rmux, pipeflag, copyFuncs, errors, ctrlReqid, ctrlSessid,
                 term, started, stdinPipeWriter, exitStatus, aborted>>
  /\ UNCHANGED <<rOpen, fileOpen, pipeBuf, lostConn, mainPc, api, cmd,
                 waitVars, ret, outRet, readerVars, taskVars, remoteVars, dataVars,
                 wireVars, startedBy, singleWriter, rdSeen>>

\* s.aborted <- true; return nil
CloseSend ==
  /\ closePc = "send"
  /\ CanSend(aborted)
  /\ aborted' = Send(aborted, TRUE)
  /\ closePc' = "idle"
  /\ counts' = [counts EXCEPT !.closeRet = @ + 1]
  /\ UNCHANGED <<Std, lmux, rmux, pipeflag, copyFuncs, errors, ctrlconn, ctrlReqid,
                 ctrlSessid, term, started, stdinPipeWriter, exitStatus>>
  /\ UNCHANGED <<fdVars, mainPc, api, cmd, waitVars, ret, outRet, readerVars, taskVars,
                 remoteVars, dataVars, wireVars, startedBy, atClose,
                 singleWriter, rdSeen>>

\* ------------------------------------------- the exit-status reader (wait)
\* a reader that does not remember an accepted ExitMessage
ExitSeenIgnored(seen) == FALSE

\* if exit_seen
ExitSeen(seen) == seen

\* one iteration of the loop of Session.wait on the outcome rd of readPacket:
\* the Waitmsg, exit_seen, and whether the loop is left.  A break inside the
\* switch leaves the switch only.
waitStep(w, seen, rd, sessid) ==
  LET p0 == packetPopInt(rd.pkt)
      p1 == packetPopInt(p0.buf)
      p2 == packetPopInt(p1.buf)
      unknown == [w EXCEPT !.msg = "unknown session id"]
      goOn(w1, seen1) == [wm |-> w1, exit_seen |-> seen1, brk |-> FALSE]
  IN  IF rd.err \/ p0.err THEN [wm |-> w, exit_seen |-> seen, brk |-> TRUE]
      ELSE IF p0.res = muxTtyAllocFail
        THEN IF p1.err THEN goOn(w, seen)
             ELSE IF p1.res # sessid THEN goOn(unknown, seen)
             ELSE goOn(w, seen)
      ELSE IF p0.res = muxExitMessage
        THEN IF p1.err THEN goOn(w, seen)
             ELSE IF p1.res # sessid THEN goOn(unknown, seen)
             ELSE IF ExitSeen(seen) THEN goOn([w EXCEPT !.msg = "exit seen twice"], seen)
             ELSE IF p2.err THEN goOn([w EXCEPT !.status = p2.res], seen)
             ELSE goOn([w EXCEPT !.status = p2.res], TRUE)
      ELSE goOn(w, seen)

\* what is irregular about the packet readPacket returned: a type code that is
\* neither TtyAllocFail nor ExitMessage, or a session id that is not the Session's
Irregular(rd, sessid) ==
  LET p0 == packetPopInt(rd.pkt)
      p1 == packetPopInt(p0.buf)
  IN  IF rd.err \/ p0.err THEN {}
      ELSE IF p0.res \notin {muxTtyAllocFail, muxExitMessage} THEN {"unknown type"}
      ELSE IF ~p1.err /\ p1.res # sessid THEN {"other sid"}
      ELSE {}

\* what Session.wait returns once the loop is left
waitOutcome(w) ==
  IF w.status = U32(0) THEN ErrNil
  ELSE IF w.status = MinusOne THEN ExitMissingError
  ELSE ExitError(w)

\* Session.wait closes the control connection before it returns
waitCloses(w) == w.status # U32(0) /\ w.status # MinusOne

\* the reader goroutine: one readPacket and what follows it; when the loop is left,
\* the outcome is sent to s.exitStatus
ReaderStep(rd) ==
  /\ rdPc = "loop"
  /\ rdSeen' = rdSeen \cup Irregular(rd, ctrlSessid)
  /\ LET r == waitStep(wm, exit_seen, rd, ctrlSessid)
     IN  /\ wm' = r.wm
         /\ exit_seen' = r.exit_seen
         /\ IF r.brk
              THEN /\ rdPc' = "done"
                   /\ readerOut' = waitOutcome(r.wm)
                   /\ ctrlconn' = IF waitCloses(r.wm) THEN "closed" ELSE ctrlconn
                   /\ CanSend(exitStatus)
                   /\ exitStatus' = Send(exitStatus, waitOutcome(r.wm))
                   /\ counts' = [counts EXCEPT !.exitSend = @ + 1]
              ELSE UNCHANGED <<rdPc, readerOut, ctrlconn, exitStatus, counts>>
  /\ UNCHANGED <<Std, lmux, rmux, pipeflag, copyFuncs, errors, ctrlReqid, ctrlSessid,
                 term, started, stdinPipeWriter, aborted>>
  /\ UNCHANGED <<fdVars, mainPc, api, cmd, waitVars, ret, outRet, closePc, taskVars,
                 remoteVars, dataVars, wireVars, startedBy, atClose,
                 singleWriter>>

\* the master sends a packet and the reader reads it
ReaderRead(pkt) ==
  /\ ctrlconn = "open"
  /\ mconn = "open"
  /\ pkt \in ReaderPackets
  /\ ReaderStep(ReadPacket(pkt))

\* the master has closed the connection: the read fails
ReaderEOF ==
  /\ mconn = "closed"
  /\ ReaderStep(ReadError)

\* this process has closed the connection: the read may fail
ReaderUnblocked ==
  /\ ctrlconn = "closed"
  /\ mconn = "open"
  /\ ReaderStep(ReadError)

\* --------------------------------------------------------- the copy tasks
\* the goroutine start() launches for a copy function sends its result
TaskDone(s, e) ==
  /\ taskPc' = [taskPc EXCEPT ![s] = "done"]
  /\ CanSend(errors)
  /\ errors' = Send(errors, e)
  /\ copyDone' = Append(copyDone, e)

\* the stdin copy function reads a chunk from the relay fed from s.Stdin
StdinTaskRead ==
  /\ taskPc["stdin"] = "run"
  /\ held = <<>>
  /\ Std["stdin"] = "reader"
  /\ stdinPipeWriter = "open"
  /\ inPos < limit["stdin"]
  /\ held' = <<InByte(inPos + 1)>>
  /\ inPos' = inPos + 1
  /\ UNCHANGED <<sessionVars, fdVars, mainPc, api, cmd, waitVars, ret, outRet, closePc,
                 readerVars, taskPc, copyDone, remoteVars, sink, limit, wireVars,
                 startedBy, atClose,
                 singleWriter, rdSeen, counts>>

\* the stdin copy function meets the end of its input: it closes lmuxStdin
StdinTaskEOF ==
  /\ taskPc["stdin"] = "run"
  /\ held = <<>>
  /\ Std["stdin"] = "nil" \/ inPos = limit["stdin"] \/ stdinPipeWriter = "closed"
  /\ lOpen' = [lOpen EXCEPT !["stdin"] = FALSE]
  /\ TaskDone("stdin", ErrNil)
  /\ UNCHANGED <<Std, lmux, rmux, pipeflag, copyFuncs, ctrlconn, ctrlReqid, ctrlSessid,
                 term, started, stdinPipeWriter, exitStatus, aborted>>
  /\ UNCHANGED <<rOpen, fileOpen, pipeBuf, lostConn, mainPc, api, cmd,
                 waitVars, ret, outRet, closePc, readerVars, held, remoteVars, dataVars,
                 wireVars, startedBy, atClose,
                 singleWriter, rdSeen, counts>>

\* nobody holds the read end of the stdin pipe any more
StdinNoReader == ~rOpen["stdin"] /\ mfd["stdin"] # "open"

\* the stdin copy function writes the chunk to lmuxStdin
StdinTaskWrite ==
  /\ taskPc["stdin"] = "run"
  /\ held # <<>>
  /\ ~StdinNoReader
  /\ Len(pipeBuf["stdin"]) + Len(held) <= PipeCap
  /\ pipeBuf' = [pipeBuf EXCEPT !["stdin"] = @ \o held]
  /\ held' = <<>>
  /\ UNCHANGED <<sessionVars, lOpen, rOpen, fileOpen, lostConn, mainPc, api,
                 cmd, waitVars, ret, outRet, closePc, readerVars, taskPc, copyDone,
                 remoteVars, dataVars, wireVars, startedBy, atClose,
                 singleWriter, rdSeen, counts>>

\* the write to lmuxStdin fails: the remote side has closed its stdin
StdinTaskEPIPE ==
  /\ taskPc["stdin"] = "run"
  /\ held # <<>>
  /\ StdinNoReader
  /\ held' = <<>>
  /\ lOpen' = [lOpen EXCEPT !["stdin"] = FALSE]
  /\ TaskDone("stdin", CopyError("stdin"))
  /\ UNCHANGED <<Std, lmux, rmux, pipeflag, copyFuncs, ctrlconn, ctrlReqid, ctrlSessid,
                 term, started, stdinPipeWriter, exitStatus, aborted>>
  /\ UNCHANGED <<rOpen, fileOpen, pipeBuf, lostConn, mainPc, api, cmd,
                 waitVars, ret, outRet, closePc, readerVars, remoteVars, dataVars,
                 wireVars, startedBy, atClose,
                 singleWriter, rdSeen, counts>>

\* where the bytes a copy function writes to s.Stdout or s.Stderr end up
Deliver(s, chunk) ==
  CASE Std[s] \in {"writer", "buffer"} -> [sink EXCEPT ![s] = @ \o chunk]
    [] OTHER -> sink

\* the stdout or stderr copy function reads n bytes from its pipe and writes them
OutTaskCopy(s, n) ==
  /\ s \in OutStreams
  /\ taskPc[s] = "run"
  /\ Std[s] # "single"
  /\ lOpen[s]
  /\ n \in 1..Len(pipeBuf[s])
  /\ sink' = Deliver(s, SubSeq(pipeBuf[s], 1, n))
  /\ pipeBuf' = [pipeBuf EXCEPT ![s] = SubSeq(@, n + 1, Len(@))]
  /\ UNCHANGED <<sessionVars, lOpen, rOpen, fileOpen, lostConn, mainPc, api,
                 cmd, waitVars, ret, outRet, closePc, readerVars, taskVars, remoteVars,
                 inPos, limit, wireVars, startedBy, atClose,
                 singleWriter, rdSeen, counts>>

\* --- the copy functions of CombinedOutput: io.Copy into the singleWriter
\* io.Copy reads n bytes from the stream's pipe and calls singleWriter.Write(p)
SingleRead(s, n) ==
  /\ s \in OutStreams
  /\ taskPc[s] = "run"
  /\ Std[s] = "single"
  /\ singleWriter.pc[s] = "idle"
  /\ lOpen[s]
  /\ n \in 1..Len(pipeBuf[s])
  /\ singleWriter' = [singleWriter EXCEPT !.pc[s] = "lock",
                                          !.p[s] = SubSeq(pipeBuf[s], 1, n)]
  /\ pipeBuf' = [pipeBuf EXCEPT ![s] = SubSeq(@, n + 1, Len(@))]
  /\ UNCHANGED <<sessionVars, lOpen, rOpen, fileOpen, lostConn, mainPc, api,
                 cmd, waitVars, ret, outRet, closePc, readerVars, taskVars, remoteVars,
                 dataVars, wireVars, startedBy, atClose, rdSeen, counts>>

\* a Lock that never waits
MuIgnored == TRUE

\* w.mu.Lock() can return: the mutex is not held
MuFree == singleWriter.mu = "free"

\* w.mu.Lock(), then the first half of w.b.Write(p): the buffer's length is read
SingleLock(s) ==
  /\ s \in OutStreams
  /\ singleWriter.pc[s] = "lock"
  /\ MuFree
  /\ singleWriter' = [singleWriter EXCEPT !.mu = s, !.pc[s] = "write",
                                          !.m[s] = Len(sink["stdout"])]
  /\ UNCHANGED <<sessionVars, fdVars, mainPc, api, cmd, waitVars, ret, outRet, closePc,
                 readerVars, taskVars, remoteVars, dataVars, wireVars, startedBy,
                 atClose, rdSeen, counts>>

\* the buffer after p was stored at offset m
StoreAt(buf, m, p) ==
  IF m <= Len(buf) THEN SubSeq(buf, 1, m) \o p ELSE buf \o p

\* the second half of w.b.Write(p): p is stored at the length read and the buffer
\* ends there; then the deferred w.mu.Unlock()
SingleWrite(s) ==
  /\ s \in OutStreams
  /\ singleWriter.pc[s] = "write"
  /\ sink' = [sink EXCEPT !["stdout"] = StoreAt(@, singleWriter.m[s], singleWriter.p[s])]
  /\ singleWriter' = [singleWriter EXCEPT !.mu = "free", !.pc[s] = "idle",
                                          !.p[s] = <<>>, !.m[s] = 0]
  /\ UNCHANGED <<sessionVars, fdVars, mainPc, api, cmd, waitVars, ret, outRet, closePc,
                 readerVars, taskVars, remoteVars, inPos, limit, wireVars, startedBy,
                 atClose, rdSeen, counts>>

\* a read that reports end of file whenever the pipe is empty
NoWriterNeeded(s) == TRUE

\* every write end of the stream's pipe is closed
NoWriter(s) == ~rOpen[s] /\ mfd[s] # "open"

\* the result of an output copy function whose read returns no more data
OutTaskEnd(s) ==
  IF ~lOpen[s] THEN CopyError(s) ELSE ErrNil

\* the stdout or stderr copy function ends: end of file, or its pipe was closed
OutTaskFinish(s) ==
  /\ s \in OutStreams
  /\ taskPc[s] = "run"
  /\ singleWriter.pc[s] = "idle"
  /\ ~lOpen[s] \/ (pipeBuf[s] = <<>> /\ NoWriter(s))
  /\ TaskDone(s, OutTaskEnd(s))
  /\ UNCHANGED <<Std, lmux, rmux, pipeflag, copyFuncs, ctrlconn, ctrlReqid, ctrlSessid,
                 term, started, stdinPipeWriter, exitStatus, aborted>>
  /\ UNCHANGED <<fdVars, mainPc, api, cmd, waitVars, ret, outRet, closePc, readerVars,
                 held, remoteVars, dataVars, wireVars, startedBy, atClose,
                 singleWriter, rdSeen, counts>>

\* the caller's writer fails: the copy function ends with that error
OutTaskWriteError(s) ==
  /\ s \in OutStreams
  /\ taskPc[s] = "run"
  /\ lOpen[s]
  /\ pipeBuf[s] # <<>>
  /\ Std[s] = "writer"
  /\ pipeBuf' = [pipeBuf EXCEPT ![s] = <<>>]
  /\ TaskDone(s, CopyError(s))
  /\ UNCHANGED <<Std, lmux, rmux, pipeflag, copyFuncs, ctrlconn, ctrlReqid, ctrlSessid,
                 term, started, stdinPipeWriter, exitStatus, aborted>>
  /\ UNCHANGED <<lOpen, rOpen, fileOpen, lostConn, mainPc, api, cmd, waitVars,
                 ret, outRet, closePc, readerVars, held, remoteVars, dataVars, wireVars,
                 startedBy, atClose,
                 singleWriter, rdSeen, counts>>

\* ------------------------------------- the caller's use of the pipe accessors
\* the caller writes the next byte of its input to the pipe StdinPipe returned
CallerWrite ==
  /\ lmux["stdin"] = "acc"
  /\ lOpen["stdin"]
  /\ ~StdinNoReader
  /\ inPos < limit["stdin"]
  /\ Len(pipeBuf["stdin"]) < PipeCap
  /\ pipeBuf' = [pipeBuf EXCEPT !["stdin"] = Append(@, InByte(inPos + 1))]
  /\ inPos' = inPos + 1
  /\ UNCHANGED <<sessionVars, lOpen, rOpen, fileOpen, lostConn, mainPc, api,
                 cmd, waitVars, ret, outRet, closePc, readerVars, taskVars, remoteVars,
                 sink, limit, wireVars, startedBy, atClose,
                 singleWriter, rdSeen, counts>>

\* the caller closes the pipe StdinPipe returned
CallerCloseStdin ==
  /\ lmux["stdin"] = "acc"
  /\ lOpen["stdin"]
  /\ lOpen' = [lOpen EXCEPT !["stdin"] = FALSE]
  /\ UNCHANGED <<sessionVars, rOpen, fileOpen, pipeBuf, lostConn, mainPc, api,
                 cmd, waitVars, ret, outRet, closePc, readerVars, taskVars, remoteVars,
                 dataVars, wireVars, startedBy, atClose,
                 singleWriter, rdSeen, counts>>

\* the caller reads from the pipe StdoutPipe or StderrPipe returned
CallerRead(s, n) ==
  /\ s \in OutStreams
  /\ lmux[s] = "acc"
  /\ lOpen[s]
  /\ n \in 1..Len(pipeBuf[s])
  /\ sink' = [sink EXCEPT ![s] = @ \o SubSeq(pipeBuf[s], 1, n)]
  /\ pipeBuf' = [pipeBuf EXCEPT ![s] = SubSeq(@, n + 1, Len(@))]
  /\ UNCHANGED <<sessionVars, lOpen, rOpen, fileOpen, lostConn, mainPc, api,
                 cmd, waitVars, ret, outRet, closePc, readerVars, taskVars, remoteVars,
                 inPos, limit, wireVars, startedBy, atClose,
                 singleWriter, rdSeen, counts>>

\* ------------------------------------ the master and the remote command
\* the remote command writes its next byte to the descriptor passed for stream s
RemoteWrite(s) ==
  /\ s \in OutStreams
  /\ started
  /\ mfd[s] = "open"
  /\ rpos[s] < limit[s]
  /\ rpos' = [rpos EXCEPT ![s] = @ + 1]
  /\ UNCHANGED inPos
  /\ IF rmux[s] = "file"
       THEN /\ sink' = [sink EXCEPT ![s] = Append(@, OutByte(s, rpos[s] + 1))]
            /\ UNCHANGED pipeBuf
       ELSE /\ lOpen[s]
            /\ Len(pipeBuf[s]) < PipeCap
            /\ pipeBuf' = [pipeBuf EXCEPT ![s] = Append(@, OutByte(s, rpos[s] + 1))]
            /\ UNCHANGED sink
  /\ UNCHANGED <<sessionVars, lOpen, rOpen, fileOpen, lostConn, mainPc, api,
                 cmd, waitVars, ret, outRet, closePc, readerVars, taskVars, mconn, mfd,
                 rin, limit, wireVars, startedBy, atClose,
                 singleWriter, rdSeen, counts>>

\* the remote command has read end-of-input
AtEndOfInput == rin # <<>> /\ rin[Len(rin)] = EndOfInput

\* the remote command reads a byte from the descriptor passed for stdin
RemoteRead ==
  /\ started
  /\ mfd["stdin"] = "open"
  /\ ~AtEndOfInput
  /\ IF rmux["stdin"] = "file"
       THEN /\ inPos < limit["stdin"]
            /\ rin' = Append(rin, InByte(inPos + 1))
            /\ inPos' = inPos + 1
            /\ UNCHANGED pipeBuf
       ELSE /\ pipeBuf["stdin"] # <<>>
            /\ rin' = Append(rin, Head(pipeBuf["stdin"]))
            /\ pipeBuf' = [pipeBuf EXCEPT !["stdin"] = Tail(@)]
            /\ UNCHANGED inPos
  /\ UNCHANGED <<sessionVars, lOpen, rOpen, fileOpen, lostConn, mainPc, api,
                 cmd, waitVars, ret, outRet, closePc, readerVars, taskVars, mconn, mfd,
                 rpos, sink, limit, wireVars, startedBy, atClose,
                 singleWriter, rdSeen, counts>>

\* the remote command reads from the descriptor passed for stdin and finds the end
\* of the input: the file is exhausted, or the pipe is empty with no writer left
RemoteReadEOF ==
  /\ started
  /\ mfd["stdin"] = "open"
  /\ ~AtEndOfInput
  /\ IF rmux["stdin"] = "file"
       THEN inPos = limit["stdin"]
       ELSE pipeBuf["stdin"] = <<>> /\ ~lOpen["stdin"]
  /\ rin' = Append(rin, EndOfInput)
  /\ UNCHANGED <<sessionVars, fdVars, mainPc, api, cmd, waitVars, ret, outRet, closePc,
                 readerVars, taskVars, mconn, mfd, rpos, dataVars, wireVars, startedBy,
                 atClose,
                 singleWriter, rdSeen, counts>>

\* the remote command has exited: the master holds none of its descriptors any more
\* and sends the exit notification of the session
MasterExit(status) ==
  /\ \A s \in Streams : mfd[s] # "open"
  /\ ~exit_seen
  /\ ReaderRead(muxExitMessage \o Sid \o U32(status))

\* the master closes its copy of a descriptor of the session it opened
MasterCloseFd(s) ==
  /\ mfd[s] = "open"
  /\ started
  /\ mainPc \notin {"hello", "alive", "opened"}
  /\ mfd' = [mfd EXCEPT ![s] = "closed"]
  /\ UNCHANGED <<sessionVars, fdVars, mainPc, api, cmd, waitVars, ret, outRet, closePc,
                 readerVars, taskVars, mconn, rpos, rin, dataVars, wireVars, startedBy,
                 atClose,
                 singleWriter, rdSeen, counts>>

\* the master closes the control connection
MasterCloseConn ==
  /\ mconn = "open"
  /\ rdPc = "loop"
  /\ mconn' = "closed"
  /\ UNCHANGED <<sessionVars, fdVars, mainPc, api, cmd, waitVars, ret, outRet, closePc,
                 readerVars, taskVars, mfd, rpos, rin, dataVars, wireVars, startedBy,
                 atClose,
                 singleWriter, rdSeen, counts>>

\* ------------------------------------------------------ the specifications
\* data lengths: none, and the lengths the copy specifications use
NoData == [s \in Streams |-> 0]

\* the replies of a master that accepts the session
GoodHello == ReadPacket(U32(muxMsgHello) \o U32(muxVersion))
GoodAlive == ReadPacket(muxIsAlive \o U32(0) \o Pid)
GoodOpened == ReadPacket(muxSessionOpened \o U32(1) \o Sid)

\* Spec: every call order of one Session against a master that may answer each
\* step of the handshake with any reply; Close is left to SpecClose
Init == InitSession /\ limit = NoData

Next ==
  \/ \E t \in Terms : RequestPty(t)
  \/ SetStd("stdin", "file")
  \/ \E a \in Apis, c \in Cmds, dial \in BOOLEAN : StartBegin(a, c, dial)
  \/ \E rd \in ReadOutcomes(HelloReplies), wok1, wok2 \in BOOLEAN :
        StartHello(rd, wok1, wok2)
  \/ \E rd \in ReadOutcomes(AliveReplies), wok \in BOOLEAN,
        pfail \in Streams \cup {"none"} : StartAlive(rd, wok, pfail)
  \/ \E rd \in ReadOutcomes(OpenedReplies), raw \in BOOLEAN : StartOpened(rd, raw)
  \/ WaitBegin
  \/ WaitSelectExit
  \/ WaitDrain
  \/ MasterCloseConn
  \/ ReaderEOF
  \/ StdinTaskEOF
  \/ \E s \in OutStreams : OutTaskFinish(s)
  \/ \E s \in Streams : MasterCloseFd(s)

Spec == Init /\ [][Next]_vars

\* SpecRun: a session that Start starts, with Stdout and Stderr wired to writers or
\* not, a remote command that writes to both, a master that sends any packets,
\* and Wait; Close is never called
InitRun ==
  /\ InitSession
  /\ limit = [s \in Streams |-> IF s \in OutStreams THEN RunLen ELSE 0]

NextRun ==
  \/ \E s \in OutStreams : SetStd(s, "writer")
  \/ StartBegin("Start", <<99>>, TRUE)
  \/ StartHello(GoodHello, TRUE, TRUE)
  \/ StartAlive(GoodAlive, TRUE, "none")
  \/ StartOpened(GoodOpened, FALSE)
  \/ WaitBegin
  \/ WaitSelectExit
  \/ WaitDrain
  \/ \E pkt \in ReaderPackets : ReaderRead(pkt)
  \/ MasterCloseConn
  \/ ReaderEOF
  \/ StdinTaskEOF
  \/ \E s \in OutStreams : OutTaskCopy(s, 1)
  \/ \E s \in OutStreams : OutTaskFinish(s)
  \/ \E s \in OutStreams : OutTaskWriteError(s)
  \/ \E s \in OutStreams : RemoteWrite(s)
  \/ \E s \in OutStreams : MasterCloseFd(s)

SpecRun == InitRun /\ [][NextRun]_vars

\* SpecClose: Start("") or Shell, Wait and Close in any order, with a remote command
\* that writes one byte to its stdout and a master that may close the connection
InitClose ==
  /\ InitSession
  /\ limit = [s \in Streams |-> IF s = "stdout" THEN RunLen ELSE 0]

NextClose ==
  \/ SetStd("stdout", "writer")
  \/ \E a \in {"Start", "Shell"} : StartBegin(a, <<>>, TRUE)
  \/ StartHello(GoodHello, TRUE, TRUE)
  \/ StartAlive(GoodAlive, TRUE, "none")
  \/ StartOpened(GoodOpened, FALSE)
  \/ WaitBegin
  \/ WaitSelectExit
  \/ WaitSelectAborted
  \/ WaitDrain
  \/ CloseBegin
  \/ CloseSend
  \/ MasterCloseConn
  \/ ReaderEOF
  \/ ReaderUnblocked
  \/ StdinTaskEOF
  \/ OutTaskCopy("stdout", 1)
  \/ \E s \in OutStreams : OutTaskFinish(s)
  \/ RemoteWrite("stdout")
  \/ \E s \in OutStreams : MasterCloseFd(s)

SpecClose == InitClose /\ [][NextClose]_vars

\* SpecData: Run with Stdin and Stdout wired to a reader and a writer or to the
\* pipes of StdinPipe and StdoutPipe, a remote command that reads its stdin and
\* writes its stdout, and a master that reports exit status 0 once the command
\* has exited
InitData ==
  /\ InitSession
  /\ limit = [s \in Streams |->
                CASE s = "stdin" -> InLen [] s = "stdout" -> OutLen [] OTHER -> 0]

NextData ==
  \/ SetStd("stdin", "reader")
  \/ SetStd("stdout", "writer")
  \/ \E s \in {"stdin", "stdout"} : PipeOnce(s)
  \/ StartBegin("Run", <<99>>, TRUE)
  \/ StartHello(GoodHello, TRUE, TRUE)
  \/ StartAlive(GoodAlive, TRUE, "none")
  \/ StartOpened(GoodOpened, FALSE)
  \/ WaitSelectExit
  \/ WaitDrain
  \/ MasterExit(0)
  \/ MasterCloseConn
  \/ ReaderEOF
  \/ StdinTaskRead
  \/ StdinTaskWrite
  \/ StdinTaskEOF
  \/ StdinTaskEPIPE
  \/ OutTaskCopy("stdout", 1)
  \/ \E s \in OutStreams : OutTaskFinish(s)
  \/ CallerWrite
  \/ CallerCloseStdin
  \/ CallerRead("stdout", 1)
  \/ RemoteWrite("stdout")
  \/ RemoteRead
  \/ RemoteReadEOF
  \/ \E s \in Streams : MasterCloseFd(s)

SpecData == InitData /\ [][NextData]_vars

\* CombinedOutput: a command that writes to both of its output streams while the
\* two copy functions share the singleWriter
InitCombined ==
  /\ InitSession
  /\ limit = [s \in Streams |->
                CASE s = "stdout" -> OutLen [] s = "stderr" -> RunLen [] OTHER -> 0]

NextCombined ==
  \/ StartBegin("CombinedOutput", <<99>>, TRUE)
  \/ StartHello(GoodHello, TRUE, TRUE)
  \/ StartAlive(GoodAlive, TRUE, "none")
  \/ StartOpened(GoodOpened, FALSE)
  \/ WaitSelectExit
  \/ WaitDrain
  \/ \E status \in {0, 1} : MasterExit(status)
  \/ MasterCloseConn
  \/ ReaderEOF
  \/ StdinTaskEOF
  \/ \E s \in OutStreams, n \in 1..PipeCap : SingleRead(s, n)
  \/ \E s \in OutStreams : SingleLock(s)
  \/ \E s \in OutStreams : SingleWrite(s)
  \/ \E s \in OutStreams : OutTaskFinish(s)
  \/ \E s \in OutStreams : RemoteWrite(s)
  \/ \E s \in Streams : MasterCloseFd(s)

SpecCombined == InitCombined /\ [][NextCombined]_vars

\* the calls a caller can make on a Session in any order: assignments of Stdin, Stdout
\* and Stderr, the pipe accessors, every starting call against a master that answers
\* correctly or cannot be reached, and Wait
InitCalls == InitSession /\ limit = NoData

NextCalls ==
  \/ \E s \in Streams, k \in {"reader", "writer", "file"} : SetStd(s, k)
  \/ \E s \in Streams : Pipe(s)
  \/ \E a \in Apis, c \in Cmds, dial \in BOOLEAN : StartBegin(a, c, dial)
  \/ StartHello(GoodHello, TRUE, TRUE)
  \/ StartAlive(GoodAlive, TRUE, "none")
  \/ StartOpened(GoodOpened, FALSE)
  \/ WaitBegin

SpecCalls == InitCalls /\ [][NextCalls]_vars

\* a caller that calls Wait once more than the other specifications allow, and Close,
\* on a Session started by Start whose command writes nothing
InitAgain == InitSession /\ limit = NoData

NextAgain ==
  \/ StartBegin("Start", <<99>>, TRUE)
  \/ StartHello(GoodHello, TRUE, TRUE)
  \/ StartAlive(GoodAlive, TRUE, "none")
  \/ StartOpened(GoodOpened, FALSE)
  \/ WaitUpTo(MaxWait + 1)
  \/ WaitSelectExit
  \/ WaitSelectAborted
  \/ WaitDrain
  \/ CloseBegin
  \/ CloseSend
  \/ MasterCloseConn
  \/ ReaderEOF
  \/ ReaderUnblocked
  \/ StdinTaskEOF
  \/ \E s \in OutStreams : OutTaskFinish(s)
  \/ \E s \in Streams : MasterCloseFd(s)

SpecAgain == InitAgain /\ [][NextAgain]_vars

\* Start against a master whose replies may be wrong at any step, and Close
InitFail == InitSession /\ limit = NoData

NextFail ==
  \/ \E t \in Terms : RequestPty(t)
  \/ SetStd("stdin", "file")
  \/ \E c \in Cmds : StartBegin("Start", c, TRUE)
  \/ \E rd \in ReadOutcomes(HelloReplies), wok1, wok2 \in BOOLEAN : StartHello(rd, wok1, wok2)
  \/ \E rd \in ReadOutcomes(AliveReplies), wok \in BOOLEAN, pfail \in Streams \cup {"none"} :
       StartAlive(rd, wok, pfail)
  \/ \E rd \in ReadOutcomes(OpenedReplies), raw \in BOOLEAN : StartOpened(rd, raw)
  \/ CloseBegin
  \/ CloseSend

SpecFail == InitFail /\ [][NextFail]_vars

\* a caller that takes pipes from the accessors, starts the session and closes it
InitOwn == InitSession /\ limit = NoData

NextOwn ==
  \/ \E s \in Streams : Pipe(s)
  \/ \E c \in Cmds, dial \in BOOLEAN : StartBegin("Start", c, dial)
  \/ StartHello(GoodHello, TRUE, TRUE)
  \/ StartAlive(GoodAlive, TRUE, "none")
  \/ StartOpened(GoodOpened, FALSE)
  \/ CloseBegin
  \/ CloseSend

SpecOwn == InitOwn /\ [][NextOwn]_vars

\* ------------------------------------------- the handshake claims, in Spec
\* the i-th 4-byte field of a packet
Field(pkt, i) == SubSeq(pkt, 4 * i - 3, 4 * i)

\* the reply read at a step of the handshake is whole and echoes request id n
Echoes(n) == ~reply.rd.err /\ Len(reply.rd.pkt) >= 12 /\ Field(reply.rd.pkt, 2) = U32(n)

\* the Start, Shell, Run, Output or CombinedOutput call returned an error, or another
\* call has returned since
StartFailed ==
  /\ mainPc = "idle"
  /\ ret.api \in Apis => ret.err # ErrNil
  /\ ret.api # "none"

\* C5: over any sequence of Start/Shell/Run/Output/CombinedOutput calls at most one
\* completes the handshake, at most one exit-status reader is launched, and at most
\* one result is sent to the exit-status channel
C5_OneStart ==
  /\ counts.handshake <= 1
  /\ counts.reader <= 1
  /\ counts.exitSend <= 1
  /\ Len(exitStatus.buf) <= 1

\* a second call on a started session, refused, with the reader's one result sent
C5_Witness ==
  /\ counts.start = 2
  /\ counts.handshake = 1
  /\ counts.exitSend = 1
  /\ ret.err = Err("session already started")

\* C6: a Session goes through connection-open at most once, whether or not the
\* earlier Start, Run or Shell succeeded
C6_NoReplay == counts.dial <= 1

\* C8: within one handshake AliveCheck carries request id 0 and NewSession request
\* id 1, the counter grows by one per acknowledged request and is 2 after a
\* successful handshake, and a reply echoing another id than the one just sent
\* makes Start return an error with the session not started
C8_RequestIds ==
  /\ Len(sent) >= 2 =>
       Field(sent[2], 1) = U32(muxAliveCheck) /\ Field(sent[2], 2) = U32(0)
  /\ Len(sent) >= 3 =>
       Field(sent[3], 1) = U32(muxNewSession) /\ Field(sent[3], 2) = U32(1)
  /\ mainPc = "alive" => ctrlReqid = 0
  /\ mainPc = "opened" => ctrlReqid = 1
  /\ started => ctrlReqid = 2
  /\ ctrlReqid \in 0..2
  /\ (reply.step = "alive" /\ ~Echoes(0)) => StartFailed /\ ~started /\ ctrlReqid = 0
  /\ (reply.step = "opened" /\ ~Echoes(1)) => StartFailed /\ ~started /\ ctrlReqid = 1

\* a SessionOpened reply echoing id 2 where 1 was sent, and the error Start returned
C8_Witness ==
  /\ reply = [step |-> "opened", rd |-> ReadPacket(muxSessionOpened \o U32(2) \o Sid)]
  /\ ret = [api |-> "Start", err |-> Err("out of sequence reply"), wait |-> FALSE]
  /\ Len(sent) = 3
  /\ ~started

\* the reply read after the descriptor hand-off is missing, truncated, or of
\* another type than SessionOpened
BadOpened ==
  /\ reply.step = "opened"
  /\ \/ reply.rd.err
     \/ Len(reply.rd.pkt) < 12
     \/ Field(reply.rd.pkt, 1) # muxSessionOpened

\* C9: if the reply after the descriptor hand-off is missing, truncated or not a
\* SessionOpened, Start returns an error, launches no exit-status reader and no copy
\* task, and leaves the session not started
C9_BadOpenedFails ==
  BadOpened =>
    /\ StartFailed
    /\ ~started
    /\ rdPc = "none"
    /\ \A s \in Streams : taskPc[s] = "none"
    /\ counts.reader = 0
    /\ exitStatus.nil

\* a truncated SessionOpened reply, and the error Run returned
C9_Witness ==
  /\ reply = [step |-> "opened", rd |-> ReadPacket(muxSessionOpened \o U32(1))]
  /\ ret = [api |-> "Run", err |-> Err("buffer too short"), wait |-> FALSE]
  /\ ~started

\* ------------------------------------------------ what Wait returns, in SpecRun
RECURSIVE FirstError(_)
\* the first error of a sequence of results that is not nil, or nil
FirstError(seq) ==
  IF seq = <<>> THEN ErrNil
  ELSE IF Head(seq) # ErrNil THEN Head(seq)
  ELSE FirstError(Tail(seq))

\* the exit-status error of a reader that accepted an exit notification or none
ExitStatusError ==
  IF ~exit_seen THEN ExitMissingError
  ELSE IF wm.status = U32(0) THEN ErrNil
  ELSE ExitError(wm)

\* C1: on a started Session on which Close is never called, Wait returns the
\* exit-status error when there is one (ExitMissingError when no exit notification
\* was accepted, ExitError with the status when the accepted status is not 0),
\* otherwise the first non-nil copy error in completion order, and nil only when
\* the accepted status is 0 and every copy task returned nil
C1_WaitResult ==
  (ret.wait /\ ~atClose.called) =>
    /\ rdPc = "done"
    /\ readerOut = ExitStatusError
    /\ Len(copyDone) = Len(copyFuncs)
    /\ ret.err = IF readerOut # ErrNil THEN readerOut ELSE FirstError(copyDone)
    /\ ret.err = ErrNil <=>
         /\ exit_seen
         /\ wm.status = U32(0)
         /\ \A i \in 1..Len(copyDone) : copyDone[i] = ErrNil
    /\ ~exit_seen => ret.err = ExitMissingError
    /\ (exit_seen /\ wm.status # U32(0)) =>
         ret.err.kind = "ExitError" /\ ret.err.status = wm.status

\* exit status 0 accepted, the stderr task failed before the stdout task did, and
\* Wait returned the error of the stderr task
C1_Witness ==
  /\ ret.wait
  /\ ~atClose.called
  /\ exit_seen
  /\ wm.status = U32(0)
  /\ \E i, j \in 1..Len(copyDone) :
       i < j /\ copyDone[i] = CopyError("stderr") /\ copyDone[j] = CopyError("stdout")
  /\ ret.err = CopyError("stderr")

\* ------------------------------------------------- Close, in SpecClose
IsPrefix(a, b) == Len(a) <= Len(b) /\ \A i \in 1..Len(a) : b[i] = a[i]

\* Wait has returned on a session that Start started and on which Close was first
\* called before the exit-status reader had delivered its outcome
ClosedBeforeExit ==
  /\ ret.wait
  /\ startedBy = "Start"
  /\ atClose.called
  /\ atClose.started
  /\ ~atClose.delivered

\* C2: after Start succeeded and Close was called while the remote command had not
\* exited, Wait returns 'Session aborted' with no further step of the remote side,
\* and the bytes delivered to the Stdout sink before Close are still there
C2_AbortWithoutRemote ==
  (ClosedBeforeExit /\ atClose.remote = remoteVars) =>
    /\ ret.err = Err("Session aborted")
    /\ IsPrefix(atClose.sink, sink["stdout"])

\* C3: if Close is called on a started Session before the exit-status reader has
\* delivered its outcome, Wait returns 'Session aborted' and never an exit outcome
C3_AbortWins == ClosedBeforeExit => ret.err = Err("Session aborted")

\* C4: Close terminates in every state of a Session: it is never left sending on a
\* channel that does not exist
C4_CloseReturns == closePc # "nil"

\* C7: Shell leaves the Session as Start("") does: with an abort channel, so that
\* Close returns
C7_ShellAsStart == startedBy = "Shell" => (~aborted.nil /\ closePc # "nil")

\* ------------------------------------------------- the bytes, in SpecData
\* the bytes the remote command wrote to stream s
Written(s) == [i \in 1..rpos[s] |-> OutByte(s, i)]
\* the caller's input, and the part of it taken so far
Input == [i \in 1..limit["stdin"] |-> InByte(i)]
Taken == [i \in 1..inPos |-> InByte(i)]
\* the bytes the remote command read
RinBytes == SelectSeq(rin, LAMBDA x : x # EndOfInput)

StdoutWired == Std["stdout"] = "writer" \/ lmux["stdout"] = "acc"
\* the Session copies the remote's stdout to the writer in Stdout
StdoutCopied == Std["stdout"] = "writer" /\ lmux["stdout"] # "acc"
StdinWired == Std["stdin"] = "reader" \/ lmux["stdin"] = "acc"
\* the bytes the caller supplies: all of Stdin, or what it wrote to the pipe
Supplied == IF lmux["stdin"] = "acc" THEN Taken ELSE Input

\* Run returned nil: exit status 0, no copy error, no Close
Completed == ret.wait /\ ret.err = ErrNil /\ ~atClose.called

\* the remote command read its input up to the end and wrote all its output
PassedThrough == AtEndOfInput /\ rpos["stdout"] = limit["stdout"]

OfStream(buf, s) == SelectSeq(buf, LAMBDA x : \E i \in 1..limit[s] : x = OutByte(s, i))
\* a copy task is inside Write: it holds the mutex and has not yet unlocked it
InWrite(s) == singleWriter.pc[s] = "write"
\* CombinedOutput has returned through Run and Wait
CombinedReturned == mainPc = "idle" /\ ret.api = "CombinedOutput" /\ ret.wait

Calls(a) ==
  /\ counts'.start = counts.start + 1
  /\ IF mainPc' = "hello" THEN api' = a ELSE ret'.api = a
\* nothing of the Session, its descriptors or the connection changes in this step
SessionUntouched ==
  /\ sessionVars' = sessionVars
  /\ fdVars' = fdVars
  /\ sent' = sent
  /\ mconn' = mconn
  /\ counts'.dial = counts.dial
\* the error the pre-assigned fields call for
AlreadySet == IF Std["stdout"] # "nil" THEN Err("Stdout already set")
              ELSE Err("Stderr already set")

\* C12: a call of Output with Stdout assigned, or of CombinedOutput with Stdout or
\* Stderr assigned, returns the 'already set' error of the first assigned field,
\* opens no control connection, sends nothing and leaves every Session field as it was
C12_PreCheck ==
  [][ /\ (Calls("Output") /\ Std["stdout"] # "nil") =>
           (ret'.err = Err("Stdout already set") /\ SessionUntouched)
      /\ (Calls("CombinedOutput") /\ (Std["stdout"] # "nil" \/ Std["stderr"] # "nil")) =>
           (ret'.err = AlreadySet /\ SessionUntouched) ]_vars

\* CombinedOutput was refused for Stderr on a Session that never dialled
C12_Witness ==
  /\ ret.api = "CombinedOutput"
  /\ ret.err = Err("Stderr already set")
  /\ Std["stdout"] = "nil"
  /\ ctrlconn = "nil"
  /\ counts.dial = 0

\* this step is a call of the pipe accessor of stream s
PipeCall(s) ==
  /\ mainPc = "idle" /\ mainPc' = "idle"
  /\ ret'.api = PipeName(s)
  /\ Std' = Std /\ counts' = counts
\* this step is the hand-off of the three descriptors to the master
HandOff == mainPc = "alive" /\ mainPc' = "opened"
\* this step completes a starting call: start() has run
Starts == ~started /\ started'
\* the caller holds the pipe an accessor made for stream s
ByAccessor(s) == pipeflag[s] /\ lmux[s] = "acc"

\* C13: a pipe accessor fails without effect when the stream's field is set or the
\* session has started; otherwise it makes the pipe at once and marks the stream
\* caller-managed, and Start passes the retained end of that pipe to the master and
\* launches no copy task for the stream
C13_PipeAccessors ==
  [][ \A s \in Streams :
        /\ (PipeCall(s) /\ (Std[s] # "nil" \/ started)) =>
             (ret'.err # ErrNil /\ sessionVars' = sessionVars /\ fdVars' = fdVars)
        /\ (PipeCall(s) /\ Std[s] = "nil" /\ ~started) =>
             (ret'.err = ErrNil /\ pipeflag'[s] /\ lmux'[s] = "acc" /\ rmux'[s] = "pipe"
                /\ lOpen'[s] /\ rOpen'[s])
        /\ (HandOff /\ ByAccessor(s)) => (rmux'[s] = "pipe" /\ mfd'[s] = "open")
        /\ (Starts /\ ByAccessor(s)) => taskPc'[s] = "none" ]_vars

\* this step is a call of Wait
WaitCall == counts'.wait = counts.wait + 1

\* C14: Wait on a Session on which no Start, Run or Shell has succeeded returns the
\* 'session not started' error in the same step, waiting for no channel, and changes
\* nothing of the Session, its descriptors or the connection
C14_WaitNotStarted ==
  [][ (WaitCall /\ startedBy = "none") =>
        /\ mainPc' = "idle"
        /\ ret' = [api |-> "Wait", err |-> Err("session not started"), wait |-> FALSE]
        /\ SessionUntouched
        /\ waitVars' = waitVars ]_vars

\* Wait was refused on a Session whose only starting call could not reach the master
C14_Witness ==
  /\ ret.api = "Wait"
  /\ ret.err = Err("session not started")
  /\ counts.start = 1
  /\ counts.dial = 1
  /\ startedBy = "none"

\* ------------------------------------ the exit-status reader, in SpecRun
\* C15: in the step in which the reader accepts the first ExitMessage for its session
\* it leaves the loop and sends its outcome to the result slot
C15_ExitStops ==
  [][ (~exit_seen /\ exit_seen') =>
        (rdPc' = "done" /\ counts'.exitSend = counts.exitSend + 1) ]_vars

\* C16: once the reader has read a packet whose type is neither TtyAllocFail nor
\* ExitMessage, it has left the loop, and the Wait that returns afterwards returns an
\* error
C16_UnknownTypeFails ==
  "unknown type" \in rdSeen =>
     /\ rdPc = "done"
     /\ ret.wait => ret.err # ErrNil

\* C17: once the reader has read a TtyAllocFail or ExitMessage carrying another
\* session id, the Wait that returns afterwards returns an error
C17_OtherSidFails ==
  ("other sid" \in rdSeen /\ ret.wait) => ret.err # ErrNil

\* ------------------------------------------ the order of the handshake, in Spec
\* the reply read is the greeting (Hello, version 4)
HelloAccepted(rd) ==
  ~rd.err /\ Len(rd.pkt) >= 8
    /\ Field(rd.pkt, 1) = U32(muxMsgHello) /\ Field(rd.pkt, 2) = U32(muxVersion)
\* the reply read is IsAlive for request 0
AliveAccepted(rd) ==
  ~rd.err /\ Len(rd.pkt) >= 12
    /\ Field(rd.pkt, 1) = muxIsAlive /\ Field(rd.pkt, 2) = U32(0)
\* the reply read is SessionOpened for request 1
OpenedAccepted(rd) ==
  ~rd.err /\ Len(rd.pkt) >= 12
    /\ Field(rd.pkt, 1) = muxSessionOpened /\ Field(rd.pkt, 2) = U32(1)
\* the i-th packet written on the connection, if any, has type code t
SentType(i, t) == Len(sent) >= i => Field(sent[i], 1) = U32(t)

\* what was written and passed on the current connection, by the last reply read
OrderSoFar ==
  /\ Len(sent) <= 3
  /\ SentType(1, muxMsgHello) /\ SentType(2, muxAliveCheck) /\ SentType(3, muxNewSession)
  /\ put \in {<<>>, <<"stdin", "stdout", "stderr">>}
  /\ reply.step = "none" => (sent = <<>> /\ put = <<>>)
  /\ reply.step = "hello" =>
       /\ Len(sent) <= 2 /\ put = <<>>
       /\ sent # <<>> => HelloAccepted(reply.rd)
  /\ reply.step = "alive" =>
       /\ Len(sent) >= 2
       /\ Len(sent) = 3 => AliveAccepted(reply.rd)
       /\ put # <<>> => Len(sent) = 3
  /\ reply.step = "opened" => (Len(sent) = 3 /\ put # <<>>)
  /\ mainPc = "hello" => reply.step = "none"
  /\ mainPc = "alive" => (reply.step = "hello" /\ Len(sent) = 2)
  /\ mainPc = "opened" => (reply.step = "alive" /\ put # <<>>)
  /\ rdPc # "none" => (reply.step = "opened" /\ OpenedAccepted(reply.rd))
  /\ rdPc = "loop" => mainPc \notin {"hello", "alive", "opened"}

Running == {s \in Streams : taskPc[s] = "run"}
\* the copy tasks that have sent it
Finished == {s \in Streams : taskPc[s] = "done"}

\* C19: the channel of copy results has room for every copy task, each task sends one
\* result and always finds room for it, a Wait that is draining never waits for more
\* results than are buffered or still to come, and Wait returns only when every copy
\* task has finished
C19_CopyResults ==
  /\ started => (~errors.nil /\ errors.cap = Len(copyFuncs))
  /\ started => Cardinality(Running) + Cardinality(Finished) = Len(copyFuncs)
  /\ Len(copyDone) = Cardinality(Finished)
  /\ started => Len(errors.buf) + Cardinality(Running) <= errors.cap
  /\ mainPc = "drain" =>
       Len(copyFuncs) - drained <= Len(errors.buf) + Cardinality(Running)
  /\ ret.wait => Running = {}

\* ------------------------------------------ Close after a failed Start, in SpecFail
\* the last call was a Start that failed with its control connection open
FailedOnConn ==
  /\ mainPc = "idle" /\ ~started
  /\ ret.api = "Start" /\ ret.err # ErrNil
  /\ ctrlconn = "open"
\* this step is a call of Close
CloseCall == counts'.close = counts.close + 1
\* the control connection and both ends of every pipe the hand-off made are closed
NothingOpen ==
  /\ ctrlconn # "open" /\ ~lostConn
  /\ \A s \in Streams : lmux[s] = "lib" => (~lOpen[s] /\ ~rOpen[s])

\* C20: when Close is called after a Start that failed on an open control connection,
\* Close leaves neither that connection nor either end of a pipe made by the hand-off
\* open
C20_NoDescriptorLeft ==
  [][ (CloseCall /\ FailedOnConn) => NothingOpen' ]_vars

\* -------------------------------- the connection after Wait, in SpecRun
\* C21: once Wait has returned on a Session that was never closed, the Session's
\* control connection is closed, whatever the exit-status outcome was
C21_ConnClosedAfterWait ==
  (ret.wait /\ ~atClose.called) => ctrlconn = "closed"

\* ------------------------------------- what Close closes, in SpecOwn
\* C22: Close leaves open the local end of a stdout or stderr pipe that a pipe
\* accessor returned to the caller, and closes the local end of one the hand-off made
C22_CloseOwnedOnly ==
  [][ CloseCall =>
        \A s \in OutStreams :
          /\ (lmux[s] = "acc" /\ lOpen[s]) => lOpen'[s]
          /\ lmux[s] = "lib" => ~lOpen'[s] ]_vars

\* ------------------------------- how each stream is handed off, in SpecCalls
\* the caller supplied an *os.File for stream s
IsFile(s) == Std[s] = "file"
\* the streams the Session itself relays
Relayed == {s \in Streams : ~ByAccessor(s) /\ ~IsFile(s)}

\* C23: for each stream, at the hand-off a pipe taken through an accessor is reused,
\* an *os.File is passed itself without any pipe being made, and otherwise a fresh
\* pipe is made; when the session starts, a copy task is launched exactly for the
\* streams of the third kind
C23_StreamModes ==
  [][ /\ HandOff =>
           \A s \in Streams :
             /\ ByAccessor(s) => (lmux'[s] = "acc" /\ rmux'[s] = "pipe")
             /\ IsFile(s) => (rmux'[s] = "file" /\ lmux'[s] = lmux[s])
             /\ s \in Relayed =>
                  (lmux[s] = "nil" /\ lmux'[s] = "lib" /\ rmux'[s] = "pipe"
                     /\ lOpen'[s] /\ rOpen'[s])
      /\ Starts =>
           /\ \A s \in Streams : taskPc'[s] = IF s \in Relayed THEN "run" ELSE "none"
           /\ Len(copyFuncs') = Cardinality(Relayed) ]_vars

\* ---------------------------- the remote ends after the hand-off, in SpecCalls
\* C24: this process closes its handle of a pipe's remote end only in the step that
\* accepts SessionOpened (raw mode set if asked for) and starts the session, and no
\* step closes an *os.File the caller supplied
C24_RemoteEnds ==
  [][ \A s \in Streams :
        /\ (rOpen[s] /\ ~rOpen'[s]) => (mainPc = "opened" /\ Starts /\ lmux[s] # "nil")
        /\ fileOpen[s] => fileOpen'[s] ]_vars

\* ------------------------------------- the recorded exit status, in SpecRun
\* the payload is an ExitMessage for this session that carries a status
FullExit(p) ==
  Len(p) >= 12 /\ Field(p, 1) = muxExitMessage /\ Field(p, 2) = ctrlSessid
\* what one more iteration of the reader's loop would make of payload p
Upon(p) == waitStep(wm, exit_seen, ReadPacket(p), ctrlSessid)

\* C25: the reader's status changes only in the step that accepts the first
\* ExitMessage for its session, and then to the status that message carries; after
\* that no packet changes it: a further ExitMessage for the session only sets the
\* message to 'exit seen twice', and a TtyAllocFail never changes the status
C25_FirstExitStatus ==
  [][ /\ exit_seen => (exit_seen' /\ wm'.status = wm.status)
      /\ wm'.status # wm.status => (~exit_seen /\ exit_seen')
      /\ rdPc = "loop" =>
           \A p \in ReaderPackets :
             /\ (~exit_seen /\ FullExit(p)) =>
                  (Upon(p).exit_seen /\ Upon(p).wm.status = Field(p, 3))
             /\ (exit_seen /\ FullExit(p)) =>
                  Upon(p).wm = [wm EXCEPT !.msg = "exit seen twice"]
             /\ (Len(p) >= 4 /\ Field(p, 1) = muxTtyAllocFail) =>
                  Upon(p).wm.status = wm.status ]_vars

\* a second ExitMessage was read after status 1 had been accepted
C25_Witness ==
  /\ exit_seen
  /\ wm.status = U32(1)
  /\ wm.msg = "exit seen twice"

====
